---- MODULE Spec2Model ----
(***************************************************************************)
(* Energy Advisor Backend (src/backend/energy_advisor_backend.py).         *)
(*                                                                         *)
(* The model covers the three request handlers that reach an external      *)
(* service (analyze, export_csv, geocode), the memoised forecast fetch     *)
(* get_climate_data with its lru_cache, and the helpers they call.  Each   *)
(* handler is one atomic action.  The external services are black boxes:   *)
(* what they answer is chosen nondeterministically from small sets.        *)
(*                                                                         *)
(* Representation.                                                         *)
(*   - An optional value (a JSON field that may be absent, Python None) is *)
(*     a sequence of length at most one: <<>> is None, <<x>> is x.         *)
(*   - Temperatures are integers in hundredths of a degree Celsius;        *)
(*     values rounded to one decimal are integers in tenths.               *)
(*   - Coordinates are integers in 1/10000 of a degree.                    *)
(*   - A DataFrame is a record: the set of its column names and the        *)
(*     values of its Avg_Temp column.  The dates of a forecast are part of *)
(*     what the provider answers and are not carried.                      *)
(***************************************************************************)
EXTENDS Integers, Sequences, FiniteSets, TLC

VARIABLES
    cache,        \* lru_cache of get_climate_data: entries, least recently used first
    accessOrder,  \* history: keys of the cached entries by time of last access, oldest first
    last,         \* what the most recent request did and what it answered
    mdf,          \* input DataFrame of the metrics-only specification
    mres          \* its result

vars == <<cache, accessOrder, last, mdf, mres>>

None == <<>>
Some(x) == <<x>>
Get(opt, default) == IF opt = None THEN default ELSE opt[1]

(***************************************************************************)
(* Bounds of the model.                                                    *)
(***************************************************************************)
\* Capacity of the forecast cache in the model.  The source sets maxsize=100;
\* the eviction logic does not depend on the number, and a capacity this small
\* lets the cache fill up and evict.
CacheCapacity == 2
\* Longest series given to the metrics-only specification.
MaxSeriesLen == 3

(***************************************************************************)
(* Constants and configuration                                             *)
(***************************************************************************)
ZONE_COORDINATES ==
    [z \in {"new-york", "los-angeles", "chicago", "miami", "seattle"} |->
        CASE z = "new-york"    -> [lat |-> 407128, lon |-> -740060,  tz |-> "America/New_York"]
          [] z = "los-angeles" -> [lat |-> 340522, lon |-> -1182437, tz |-> "America/Los_Angeles"]
          [] z = "chicago"     -> [lat |-> 418781, lon |-> -876298,  tz |-> "America/Chicago"]
          [] z = "miami"       -> [lat |-> 257617, lon |-> -801918,  tz |-> "America/New_York"]
          [] z = "seattle"     -> [lat |-> 476062, lon |-> -1223321, tz |-> "America/Los_Angeles"]]

DEFAULT_TIMEZONE == "auto"

TEMP_COMFORT == 24

\* str.lower() on the strings the requests of the model carry.
Lower(s) ==
    CASE s = "New-York" -> "new-york"
      [] s = "Unknown-Place" -> "unknown-place"
      [] s = "Industry" -> "industry"
      [] OTHER -> s

(***************************************************************************)
(* Requests and the answers of the external services                       *)
(***************************************************************************)
\* (zona, lat, lon, tz) of the requests the clients of the model send.
RequestLocations ==
    { <<None, None, None, None>>,                        \* zona absent: default "new-york"
      <<Some("New-York"), None, None, None>>,            \* catalog zone, other case
      <<Some("Unknown-Place"), None, None, None>>,       \* not in the catalog, no coordinates
      <<Some("Unknown-Place"), Some(488566), None, None>>,              \* latitude only
      <<Some("Unknown-Place"), Some(488566), Some(23522), None>>,       \* custom zone, no tz
      <<Some("New-York"), Some(488566), Some(23522), Some("Europe/Paris")>> } \* both given

RequestDays == { Some(6), Some(7), Some(366) }

RequestUserTypes == { None, Some("Industry"), Some("robot") }

MkRequest(user_type, loc, days, q) ==
    [user_type |-> user_type, zona |-> loc[1], days |-> days,
     lat |-> loc[2], lon |-> loc[3], tz |-> loc[4], q |-> q]

\* A valid request, every request that departs from it in one field, and
\* requests that are invalid in several fields at once.
BaseLocation == <<Some("New-York"), None, None, None>>

AnalyzeRequests ==
    { MkRequest(u, BaseLocation, Some(7), None) : u \in RequestUserTypes }
    \cup { MkRequest(None, l, Some(7), None) : l \in RequestLocations }
    \cup { MkRequest(None, BaseLocation, d, None) : d \in RequestDays }
    \cup { MkRequest(Some("robot"), <<Some("Unknown-Place"), None, None, None>>, d, None) :
              d \in RequestDays }

\* export_csv reads zona, days, lat, lon, tz only.
ExportRequests ==
    { MkRequest(None, l, d, None) :
        l \in { BaseLocation, <<Some("Unknown-Place"), None, None, None>> },
        d \in { Some(6), Some(7) } }

\* Search terms, as sequences of characters.
GeocodeQueries == { <<>>, <<" ", "a", " ">>, <<"n", "y">> }

GeocodeRequests ==
    { MkRequest(None, <<None, None, None, None>>, None, Some(q)) : q \in GeocodeQueries }

\* Daily mean temperatures of the forecast the provider of the model returns.
SampleAvgTemp == <<2000, 2200, 2600, 3000, 2500, 2300, 2100>>

\* What the forecast provider may answer.
ProviderResponses ==
    { [kind |-> "ok"],            \* a payload with 'daily' holding time and the six fields
      [kind |-> "http_error"],    \* a non-success status
      [kind |-> "no_daily"],      \* success status, payload without 'daily'
      [kind |-> "no_avg_temp"] }  \* success status, 'daily' without temperature_2m_mean

GenOutcomes == { "text", "exception" }
ChartOutcomes == { "rendered", "exception" }
GeocodeOutcomes == { "results", "exception" }

(***************************************************************************)
(* get_climate_data and its lru_cache                                      *)
(***************************************************************************)
\* Columns of the DataFrame after the rename.
NormalizedColumns ==
    {"Date", "Avg_Temp", "Max_Temp", "Relative_Humidity",
     "Solar_Radiation", "Cloud_Cover", "Wind_Speed"}

\* Python truthiness of an optional string: None and "" are false.
Truthy(opt) == opt # None /\ opt # Some("")

\* ResolveLocation with the catalog consulted before the coordinates.
ResolveLocation_CatalogFirst(zone, lat, lon, tz) ==
    IF Lower(zone) \in DOMAIN ZONE_COORDINATES
    THEN [ok |-> TRUE, coords |-> ZONE_COORDINATES[Lower(zone)]]
    ELSE IF lat # None /\ lon # None
    THEN [ok |-> TRUE,
          coords |-> [lat |-> lat[1], lon |-> lon[1],
                      tz |-> IF Truthy(tz) THEN tz[1] ELSE DEFAULT_TIMEZONE]]
    ELSE [ok |-> FALSE, coords |-> [lat |-> 0, lon |-> 0, tz |-> ""]]

\* The branch that picks the coordinates of the forecast request.
\* ok = FALSE is the ValueError of the last branch.
ResolveLocation(zone, lat, lon, tz) ==
    IF lat # None /\ lon # None
    THEN [ok |-> TRUE,
          coords |-> [lat |-> lat[1], lon |-> lon[1],
                      tz |-> IF Truthy(tz) THEN tz[1] ELSE DEFAULT_TIMEZONE]]
    ELSE IF Lower(zone) \in DOMAIN ZONE_COORDINATES
    THEN [ok |-> TRUE, coords |-> ZONE_COORDINATES[Lower(zone)]]
    ELSE [ok |-> FALSE, coords |-> [lat |-> 0, lon |-> 0, tz |-> ""]]

\* The DataFrame built from the provider's payload; raised # "none" is the
\* exception of raise_for_status or of the DataFrame construction.
NormalizePayload(resp) ==
    CASE resp.kind = "http_error" ->
            [raised |-> "UpstreamUnavailable", df |-> None]
      [] resp.kind = "no_daily" ->
            [raised |-> "MalformedResponse", df |-> None]
      [] resp.kind = "no_avg_temp" ->
            [raised |-> "none",
             df |-> Some([cols |-> NormalizedColumns \ {"Avg_Temp"}, avg |-> <<>>])]
      [] OTHER ->
            [raised |-> "none",
             df |-> Some([cols |-> NormalizedColumns, avg |-> SampleAvgTemp])]

\* The body of get_climate_data: what one execution raises or returns, the
\* location it resolved and the number of requests it sent to the provider.
get_climate_data(zone, days_ahead, lat, lon, tz, resp) ==
    LET loc == ResolveLocation(zone, lat, lon, tz)
    IN  IF ~loc.ok
        THEN [raised |-> "UnknownZone", df |-> None, location |-> None,
              providerCalls |-> 0]
        ELSE LET n == NormalizePayload(resp)
             IN  [raised |-> n.raised, df |-> n.df, location |-> Some(loc.coords),
                  providerCalls |-> 1]

\* lru_cache: the key is the tuple of the positional arguments.
CacheKey(zone, days_ahead, lat, lon, tz) == <<zone, days_ahead, lat, lon, tz>>

\* CacheFind of a cache that never finds its entries.
CacheFind_AlwaysMiss(c, key) == 0

\* Position of the entry of `key` in cache c, 0 when there is none.
CacheFind(c, key) ==
    IF \E i \in 1..Len(c) : c[i].key = key
    THEN CHOOSE i \in 1..Len(c) : c[i].key = key
    ELSE 0

RemoveAt(c, i) == SubSeq(c, 1, i - 1) \o SubSeq(c, i + 1, Len(c))

\* CacheTouch of a cache that drops in order of insertion: a hit moves nothing.
CacheTouch_NoReorder(c, i) == c

\* A hit makes the entry the most recently used one.
CacheTouch(c, i) == Append(RemoveAt(c, i), c[i])

\* A miss that returned stores the result; a full cache drops its least
\* recently used entry.  `stored` keeps the value as it was when stored.
CacheStore(c, key, df) ==
    LET entry == [key |-> key, df |-> df, stored |-> df]
    IN  IF Len(c) >= CacheCapacity
        THEN Append(Tail(c), entry)
        ELSE Append(c, entry)

\* CachedCall of a cache that also remembers the calls that raised.
CachedCall_CachesFailures(c, zone, days_ahead, lat, lon, tz, resp) ==
    LET key == CacheKey(zone, days_ahead, lat, lon, tz)
        i == CacheFind(c, key)
    IN  IF i > 0
        THEN [hit |-> TRUE, cache |-> CacheTouch(c, i), raised |-> "none",
              df |-> Some(c[i].df), location |-> None, providerCalls |-> 0]
        ELSE LET r == get_climate_data(zone, days_ahead, lat, lon, tz, resp)
             IN  [hit |-> FALSE,
                  cache |-> IF r.raised = "none"
                            THEN CacheStore(c, key, r.df[1])
                            ELSE CacheStore(c, key, [cols |-> {}, avg |-> <<>>]),
                  raised |-> r.raised, df |-> r.df, location |-> r.location,
                  providerCalls |-> r.providerCalls]

\* A call of the decorated get_climate_data on cache c.
CachedCall(c, zone, days_ahead, lat, lon, tz, resp) ==
    LET key == CacheKey(zone, days_ahead, lat, lon, tz)
        i == CacheFind(c, key)
    IN  IF i > 0
        THEN [hit |-> TRUE, cache |-> CacheTouch(c, i), raised |-> "none",
              df |-> Some(c[i].df), location |-> None, providerCalls |-> 0]
        ELSE LET r == get_climate_data(zone, days_ahead, lat, lon, tz, resp)
             IN  [hit |-> FALSE,
                  cache |-> IF r.raised = "none" THEN CacheStore(c, key, r.df[1]) ELSE c,
                  raised |-> r.raised, df |-> r.df, location |-> r.location,
                  providerCalls |-> r.providerCalls]

\* The DataFrame object returned is the one the cache holds: a change made
\* to it in place is a change of the cached entry.
MutateCached(c, key, df) ==
    [i \in 1..Len(c) |-> IF c[i].key = key THEN [c[i] EXCEPT !.df = df] ELSE c[i]]

CacheKeys(c) == { c[i].key : i \in 1..Len(c) }

\* History of accesses: key is now the most recent, and only cached keys stay.
RECURSIVE Without(_, _)
Without(s, keep) ==
    IF s = <<>> THEN <<>>
    ELSE IF Head(s) \in keep THEN <<Head(s)>> \o Without(Tail(s), keep)
    ELSE Without(Tail(s), keep)

Accessed(order, key, c) ==
    IF key \in CacheKeys(c)
    THEN Append(Without(order, CacheKeys(c) \ {key}), key)
    ELSE Without(order, CacheKeys(c))

(***************************************************************************)
(* calculate_energy_metrics                                                *)
(***************************************************************************)
RECURSIVE SumSeq(_)
SumSeq(s) == IF s = <<>> THEN 0 ELSE Head(s) + SumSeq(Tail(s))

\* ClipLower0 without the clip.
ClipLower0_NoClip(x) == x

\* Series.clip(lower=0)
ClipLower0(x) == IF x < 0 THEN 0 ELSE x

\* The CDD column: (Avg_Temp - TEMP_COMFORT).clip(lower=0), in hundredths.
CDDColumn(avg) == [i \in 1..Len(avg) |-> ClipLower0(avg[i] - TEMP_COMFORT * 100)]

\* round(x, 1) of a value in hundredths, in tenths.  A value halfway between
\* two tenths goes up or down with its binary representation: tieUp.
RoundTenth(x, tieUp) ==
    LET q == x \div 10
        r == x % 10
    IN  IF r < 5 THEN q
        ELSE IF r > 5 THEN q + 1
        ELSE IF tieUp THEN q + 1 ELSE q

\* Of the indices only cdd_total is carried; the first line of the function
\* reads Avg_Temp and raises KeyError when the column is missing.  The two
\* column assignments change the DataFrame passed in.
calculate_energy_metrics(df, tieUp) ==
    IF "Avg_Temp" \notin df.cols
    THEN [raised |-> "KeyError", metrics |-> None, df |-> df]
    ELSE [raised |-> "none",
          metrics |-> Some([cdd_total |-> RoundTenth(SumSeq(CDDColumn(df.avg)), tieUp)]),
          df |-> [df EXCEPT !.cols = @ \cup {"CDD", "Solar_Potential"}]]

(***************************************************************************)
(* generate_ai_suggestion, generate_charts                                 *)
(***************************************************************************)
\* generate_ai_suggestion without the try/except: the exception propagates.
generate_ai_suggestion_NoCatch(outcome) ==
    IF outcome = "text"
    THEN [raised |-> "none", source |-> "generated", genCalls |-> 1]
    ELSE [raised |-> "GenerationFailed", source |-> "none", genCalls |-> 1]

\* One call of the text-generation service inside try/except Exception.
generate_ai_suggestion(outcome) ==
    IF outcome = "text"
    THEN [raised |-> "none", source |-> "generated", genCalls |-> 1]
    ELSE [raised |-> "none", source |-> "fallback", genCalls |-> 1]

\* Both charts or an exception of the rendering library.
generate_charts(df, outcome) ==
    IF outcome = "rendered"
    THEN [raised |-> "none", charts |-> {"temperature", "solar"}]
    ELSE [raised |-> "ChartRenderingFailed", charts |-> {}]

(***************************************************************************)
(* The request handlers                                                    *)
(***************************************************************************)
\* The record of a request: what the handler did (calls made, value served
\* by get_climate_data, location resolved, keys the cache dropped, what the
\* text-generation service did) and what it answered (status, keys of the
\* JSON body, payload).
NoRequest ==
    [op |-> "none",
     req |-> MkRequest(None, <<None, None, None, None>>, None, None),
     status |-> 0, kind |-> "none", body |-> {}, success |-> "absent",
     fetchInvocations |-> 0, providerCalls |-> 0, genCalls |-> 0, geocodeCalls |-> 0,
     hit |-> FALSE, location |-> None, served |-> None, evicted |-> {},
     genOutcome |-> "none", invalid |-> "none",
     metrics |-> None, suggestion |-> "none", charts |-> {}, csv |-> None,
     afterFailedFetch |-> FALSE]

\* The cache key of the forecast call a request leads to: both handlers
\* read zona and days with the same defaults and pass lat, lon, tz through.
RequestKey(req) ==
    CacheKey(Get(req.zona, "new-york"), Get(req.days, 30), req.lat, req.lon, req.tz)

\* The request before this one called get_climate_data with this key and
\* the call raised.
FollowsFailedFetch(key) ==
    /\ last.fetchInvocations = 1
    /\ last.served = None
    /\ RequestKey(last.req) = key

ValidUserType(user_type) == user_type \in {"home", "industry"}

ZoneOrCoordinates(zone, lat, lon) ==
    ~(Lower(zone) \notin DOMAIN ZONE_COORDINATES /\ (lat = None \/ lon = None))

\* DaysInRange without the upper bound.
DaysInRange_NoUpperBound(days) == 7 <= days

DaysInRange(days) == 7 <= days /\ days <= 365

\* return jsonify({"error": ...}), 400; `field` is the input the message names.
BadRequest(req, field) ==
    [NoRequest EXCEPT !.op = "analyze", !.req = req, !.status = 400,
                      !.kind = "InputValidation", !.invalid = field,
                      !.body = {"error"}]

\* The except branch of analyze.
AnalyzeError(base, kind) ==
    [base EXCEPT !.status = 500, !.kind = kind, !.success = "false",
                 !.body = {"success", "error", "timestamp"}]

\* The except branch of export_csv.
ExportError(base, kind) ==
    [base EXCEPT !.status = 500, !.kind = kind, !.success = "false",
                 !.body = {"success", "error"}]

\* The provider answers only when it is asked: on a hit no request is sent.
ProviderAnswers(c, key) ==
    IF CacheFind(c, key) > 0 THEN { [kind |-> "ok"] } ELSE ProviderResponses

\* round() has a choice only for a sum halfway between two tenths.
TieChoices(df) ==
    IF "Avg_Temp" \in df.cols /\ SumSeq(CDDColumn(df.avg)) % 10 = 5
    THEN BOOLEAN
    ELSE { FALSE }

\* Steps 1 to 5 of analyze, after the validation.
AnalyzePipeline(req, user_type, zone, days) ==
    LET key == CacheKey(zone, days, req.lat, req.lon, req.tz)
    IN  \E resp \in ProviderAnswers(cache, key) :
        LET r == CachedCall(cache, zone, days, req.lat, req.lon, req.tz, resp)
            base == [NoRequest EXCEPT !.op = "analyze", !.req = req,
                                      !.fetchInvocations = 1,
                                      !.providerCalls = r.providerCalls,
                                      !.hit = r.hit, !.location = r.location,
                                      !.served = r.df,
                                      !.evicted = CacheKeys(cache) \ CacheKeys(r.cache),
                                      !.afterFailedFetch = FollowsFailedFetch(key)]
        IN  IF r.raised # "none"
            THEN /\ cache' = r.cache
                 /\ accessOrder' = Accessed(accessOrder, key, r.cache)
                 /\ last' = AnalyzeError(base, r.raised)
            ELSE
            \E tieUp \in TieChoices(r.df[1]) :
            LET m == calculate_energy_metrics(r.df[1], tieUp)
                c2 == MutateCached(r.cache, key, m.df)
            IN  /\ cache' = c2
                /\ accessOrder' = Accessed(accessOrder, key, c2)
                /\ IF m.raised # "none"
                   THEN last' = AnalyzeError(base, m.raised)
                   ELSE
                   \E gen \in GenOutcomes :
                   LET s == generate_ai_suggestion(gen)
                       b2 == [base EXCEPT !.genCalls = s.genCalls,
                                          !.genOutcome = gen]
                   IN  IF s.raised # "none"
                       THEN last' = AnalyzeError(b2, s.raised)
                       ELSE
                       \E chart \in ChartOutcomes :
                       LET ch == generate_charts(m.df, chart)
                       IN  IF ch.raised # "none"
                           THEN last' = AnalyzeError(b2, ch.raised)
                           ELSE last' =
                               [b2 EXCEPT !.status = 200, !.kind = "ok",
                                          !.success = "true",
                                          !.body = {"success", "timestamp", "parameters",
                                                    "metrics", "suggestion", "charts"},
                                          !.metrics = m.metrics,
                                          !.suggestion = s.source,
                                          !.charts = ch.charts]

\* POST /api/analyze
Analyze ==
    \E req \in AnalyzeRequests :
        LET user_type == Lower(Get(req.user_type, "home"))
            zone == Get(req.zona, "new-york")
            days == Get(req.days, 30)
        IN  /\ UNCHANGED <<mdf, mres>>
            /\ IF ~ValidUserType(user_type)
               THEN last' = BadRequest(req, "user_type") /\ UNCHANGED <<cache, accessOrder>>
               ELSE IF ~ZoneOrCoordinates(zone, req.lat, req.lon)
               THEN last' = BadRequest(req, "zona") /\ UNCHANGED <<cache, accessOrder>>
               ELSE IF ~DaysInRange(days)
               THEN last' = BadRequest(req, "days") /\ UNCHANGED <<cache, accessOrder>>
               ELSE AnalyzePipeline(req, user_type, zone, days)

\* POST /api/export-csv
ExportCsv ==
    \E req \in ExportRequests :
    \E resp \in ProviderAnswers(cache, RequestKey(req)) :
        LET zone == Get(req.zona, "new-york")
            days == Get(req.days, 30)
            key == CacheKey(zone, days, req.lat, req.lon, req.tz)
            r == CachedCall(cache, zone, days, req.lat, req.lon, req.tz, resp)
            base == [NoRequest EXCEPT !.op = "export_csv", !.req = req,
                                      !.fetchInvocations = 1,
                                      !.providerCalls = r.providerCalls,
                                      !.hit = r.hit, !.location = r.location,
                                      !.served = r.df,
                                      !.evicted = CacheKeys(cache) \ CacheKeys(r.cache),
                                      !.afterFailedFetch = FollowsFailedFetch(key)]
        IN  /\ UNCHANGED <<mdf, mres>>
            /\ cache' = r.cache
            /\ accessOrder' = Accessed(accessOrder, key, r.cache)
            /\ IF r.raised # "none"
               THEN last' = ExportError(base, r.raised)
               ELSE last' = [base EXCEPT !.status = 200, !.kind = "ok",
                                         !.csv = Some(r.df[1].cols)]

\* str.strip() of a search term.
RECURSIVE StripLeft(_)
StripLeft(q) == IF q # <<>> /\ Head(q) = " " THEN StripLeft(Tail(q)) ELSE q

RECURSIVE StripRight(_)
StripRight(q) ==
    IF q # <<>> /\ q[Len(q)] = " " THEN StripRight(SubSeq(q, 1, Len(q) - 1)) ELSE q

Strip(q) == StripRight(StripLeft(q))

\* GET /api/geocode
Geocode ==
    \E req \in GeocodeRequests :
        LET query == Strip(Get(req.q, <<>>))
            base == [NoRequest EXCEPT !.op = "geocode", !.req = req]
        IN  /\ UNCHANGED <<cache, accessOrder, mdf, mres>>
            /\ IF query = <<>> \/ Len(query) < 2
               THEN last' = [base EXCEPT !.status = 400, !.kind = "InputValidation",
                                         !.body = {"results", "error"}]
               ELSE \E outcome \in GeocodeOutcomes :
                    IF outcome = "exception"
                    THEN last' = [base EXCEPT !.status = 500,
                                              !.kind = "UpstreamUnavailable",
                                              !.geocodeCalls = 1,
                                              !.body = {"results", "error"}]
                    ELSE last' = [base EXCEPT !.status = 200, !.kind = "ok",
                                              !.geocodeCalls = 1,
                                              !.body = {"results"}]

(***************************************************************************)
(* Specification of the server                                             *)
(***************************************************************************)
EmptyFrame == [cols |-> {}, avg |-> <<>>]

Init ==
    /\ cache = <<>>
    /\ accessOrder = <<>>
    /\ last = NoRequest
    /\ mdf = EmptyFrame
    /\ mres = None

Next == Analyze \/ ExportCsv \/ Geocode

Spec == Init /\ [][Next]_vars

(***************************************************************************)
(* Specification of calculate_energy_metrics alone                         *)
(***************************************************************************)
\* Daily mean temperatures of the input series, in hundredths.
MetricTemps == {2000, 2400, 2404, 2405, 2600}

RECURSIVE SeqsUpTo(_, _)
SeqsUpTo(S, n) ==
    IF n = 0 THEN { <<>> }
    ELSE LET shorter == SeqsUpTo(S, n - 1)
         IN  shorter \cup { Append(s, x) : s \in shorter, x \in S }

MetricInputs ==
    { [cols |-> NormalizedColumns, avg |-> a] :
        a \in SeqsUpTo(MetricTemps, MaxSeriesLen) \cup { SampleAvgTemp } }

MetricsInit ==
    /\ cache = <<>>
    /\ accessOrder = <<>>
    /\ last = NoRequest
    /\ mdf \in MetricInputs
    /\ mres = None

ComputeMetrics ==
    /\ mres = None
    /\ \E tieUp \in BOOLEAN :
          LET m == calculate_energy_metrics(mdf, tieUp)
          IN  /\ mres' = Some(m)
              /\ mdf' = m.df
    /\ UNCHANGED <<cache, accessOrder, last>>

MetricsNext == ComputeMetrics

MetricsSpec == MetricsInit /\ [][MetricsNext]_vars

(***************************************************************************)
(* Properties                                                              *)
(***************************************************************************)
\* The fields of a request as the handlers read them.
UserTypeOf(req) == Lower(Get(req.user_type, "home"))
ZoneOf(req) == Get(req.zona, "new-york")
HorizonOf(req) == Get(req.days, 30)
KeyOf(req) == <<ZoneOf(req), HorizonOf(req), req.lat, req.lon, req.tz>>

InCatalog(zone) ==
    Lower(zone) \in {"new-york", "los-angeles", "chicago", "miami", "seattle"}

EntryOf(c, key) == c[CHOOSE i \in 1..Len(c) : c[i].key = key]

\* The request called get_climate_data and the call raised.
FetchFailed(l) == l.fetchInvocations = 1 /\ l.served = None

\* A caller input error of analyze: bad category, zone outside the catalog
\* with a coordinate missing, or horizon outside [7, 365].
CallerInputError(req) ==
    \/ UserTypeOf(req) \notin {"home", "industry"}
    \/ (~InCatalog(ZoneOf(req)) /\ (req.lat = None \/ req.lon = None))
    \/ HorizonOf(req) < 7
    \/ HorizonOf(req) > 365

\* C1: an analyze request with a caller input error is answered 400 as an
\* input validation error, and neither get_climate_data, the forecast
\* provider nor the text-generation service was called for it.
C1_ValidationBeforeExternalCalls ==
    (last.op = "analyze" /\ CallerInputError(last.req)) =>
        /\ last.status = 400
        /\ last.kind = "InputValidation"
        /\ last.fetchInvocations = 0
        /\ last.providerCalls = 0
        /\ last.genCalls = 0

\* An otherwise valid analyze request with horizon 366 was rejected.
C1_Witness ==
    /\ last.op = "analyze"
    /\ HorizonOf(last.req) = 366
    /\ UserTypeOf(last.req) = "home"
    /\ InCatalog(ZoneOf(last.req))
    /\ last.status = 400

\* C2: get_climate_data is only ever called with a horizon in [7, 365]: no
\* cached entry and no call of the last request has a horizon outside it.
C2_FetcherHorizonInRange ==
    /\ \A i \in 1..Len(cache) : cache[i].key[2] >= 7 /\ cache[i].key[2] <= 365
    /\ last.fetchInvocations = 1 =>
          HorizonOf(last.req) >= 7 /\ HorizonOf(last.req) <= 365

C4_CachedSeriesImmutable ==
    /\ \A i \in 1..Len(cache) : cache[i].df = cache[i].stored
    /\ (last.op = "export_csv" /\ last.hit /\ last.status = 200) =>
          last.csv[1] \subseteq NormalizedColumns

\* The request passed validation and get_climate_data gave it a complete series.
ObtainedSeries(l) ==
    /\ l.op = "analyze"
    /\ l.served # None
    /\ NormalizedColumns \subseteq l.served[1].cols

SuccessWithFallback(l) ==
    /\ l.status = 200
    /\ l.success = "true"
    /\ l.suggestion = "fallback"
    /\ l.metrics # None
    /\ l.charts = {"temperature", "solar"}

\* C5 as stated: with a series obtained the text-generation service is
\* called once, and when that call fails the request succeeds with the
\* fallback advisory, the metrics and both charts.
C5_GenerationFailureAbsorbed ==
    ObtainedSeries(last) =>
        /\ last.genCalls = 1
        /\ last.genOutcome = "exception" => SuccessWithFallback(last)

\* C5 amended: ... when that call fails the request succeeds with the
\* fallback advisory, the metrics and both charts, unless the chart
\* rendering that follows fails, which alone makes the request fail.
C5_GenerationFailureAbsorbedUnlessChartsFail ==
    ObtainedSeries(last) =>
        /\ last.genCalls = 1
        /\ last.genOutcome = "exception" =>
              \/ SuccessWithFallback(last)
              \/ last.status = 500 /\ last.kind = "ChartRenderingFailed"

\* The text-generation call failed and the request succeeded with the fallback.
C5_Witness ==
    /\ ObtainedSeries(last)
    /\ last.genOutcome = "exception"
    /\ SuccessWithFallback(last)

\* C6: a fatal error of analyze, geocode or export_csv is answered with a
\* body that carries a message and a timestamp, and with no success
\* payload and no chart.
C6_FatalErrorsStructured ==
    last.status = 500 =>
        /\ {"error", "timestamp"} \subseteq last.body
        /\ last.success # "true"
        /\ last.metrics = None
        /\ last.charts = {}
        /\ last.csv = None

\* C7: an execution of get_climate_data uses the coordinates given, with
\* timezone "auto" when none is given, whatever the zone name; without both
\* coordinates it uses the catalog entry of the lower-cased zone name; with
\* neither it fails as an unknown zone without a provider call.  An analyze
\* request for an unknown zone without coordinates is rejected before the
\* fetch, with the message about the zone when its category is valid.
C7_LocationResolution ==
    /\ (last.fetchInvocations = 1 /\ ~last.hit) =>
          LET req == last.req
          IN  IF req.lat # None /\ req.lon # None
              THEN last.location =
                      Some([lat |-> req.lat[1], lon |-> req.lon[1],
                            tz |-> IF req.tz = None THEN "auto" ELSE req.tz[1]])
              ELSE IF InCatalog(ZoneOf(req))
              THEN /\ last.location = Some(ZONE_COORDINATES[Lower(ZoneOf(req))])
                   /\ Lower(ZoneOf(req)) = "new-york" =>
                         last.location = Some([lat |-> 407128, lon |-> -740060,
                                               tz |-> "America/New_York"])
              ELSE /\ last.location = None
                   /\ last.status = 500
                   /\ last.kind = "UnknownZone"
                   /\ last.providerCalls = 0
    /\ (last.op = "analyze"
        /\ ~InCatalog(ZoneOf(last.req))
        /\ (last.req.lat = None \/ last.req.lon = None)) =>
          /\ last.status = 400
          /\ last.fetchInvocations = 0
          /\ last.providerCalls = 0
          /\ UserTypeOf(last.req) \in {"home", "industry"} => last.invalid = "zona"

\* Zone "New-York" without coordinates was resolved through the catalog.
C7_Witness ==
    /\ last.fetchInvocations = 1
    /\ last.req.zona = Some("New-York")
    /\ last.req.lat = None
    /\ last.location = Some([lat |-> 407128, lon |-> -740060, tz |-> "America/New_York"])

\* C8: the cache never holds more entries than its capacity or two entries
\* of one key; an entry leaves the cache only when a miss is stored into a
\* full cache, and the one that leaves is the entry accessed longest ago.
C8_BoundedLruEviction ==
    [][ /\ Len(cache') <= CacheCapacity
        /\ Cardinality(CacheKeys(cache')) = Len(cache')
        /\ LET removed == CacheKeys(cache) \ CacheKeys(cache')
           IN  removed # {} =>
                 /\ Len(cache) = CacheCapacity
                 /\ last'.fetchInvocations = 1
                 /\ ~last'.hit
                 /\ last'.served # None
                 /\ KeyOf(last'.req) \in CacheKeys(cache')
                 /\ accessOrder # <<>>
                 /\ removed = { accessOrder[1] } ]_vars

\* A miss was stored into a full cache and an entry was dropped.
C8_Witness ==
    /\ last.evicted # {}
    /\ Len(cache) = CacheCapacity
    /\ ~last.hit

\* Sum over the days of max(avg_temp - 24, 0), in hundredths.
RECURSIVE DegreeDaySum(_)
DegreeDaySum(avg) ==
    IF avg = <<>> THEN 0
    ELSE (IF Head(avg) > 2400 THEN Head(avg) - 2400 ELSE 0) + DegreeDaySum(Tail(avg))

\* C9 as stated: cdd_total equals the sum over the days of max(avg_temp - 24, 0).
C9_CddEqualsSum ==
    mres # None => mres[1].metrics[1].cdd_total * 10 = DegreeDaySum(mdf.avg)

\* C9 amended: cdd_total is that sum rounded to one decimal; it is never
\* negative, it is 0 when no day is warmer than 24, and it is 9.0 for the
\* series [20,22,26,30,25,23,21].
C9_CddIsRoundedSum ==
    mres # None =>
        LET total == mres[1].metrics[1].cdd_total
            diff == total * 10 - DegreeDaySum(mdf.avg)
        IN  /\ diff >= -5 /\ diff <= 5
            /\ total >= 0
            /\ (\A i \in 1..Len(mdf.avg) : mdf.avg[i] <= 2400) => total = 0
            /\ mdf.avg = <<2000, 2200, 2600, 3000, 2500, 2300, 2100>> => total = 90

\* The metrics of the series [20,22,26,30,25,23,21] were computed.
C9_Witness ==
    /\ mres # None
    /\ mdf.avg = <<2000, 2200, 2600, 3000, 2500, 2300, 2100>>
    /\ mres[1].metrics[1].cdd_total = 90

====
